---- MODULE Spec2Model ----
(***************************************************************************)
(* PathData (modules/planning/common/path/path_data.cc): a container that  *)
(* binds one reference line and keeps a Cartesian path (discretized_path_) *)
(* and a Frenet path (frenet_path_) derived from each other.               *)
(*                                                                         *)
(* Numbers: a C++ double is modelled as an integer count of 1e-4 units     *)
(* (Unit = 1.0), so that kDistanceEpsilon = 1e-3 is 10 and the distances   *)
(* 0.0005 and 0.001 are distinct values.  Products are rescaled by Unit,   *)
(* square roots are rounded down.                                          *)
(***************************************************************************)
EXTENDS Integers, Sequences, FiniteSets

VARIABLES
    reference_line_,    \* const ReferenceLine*: 0 is nullptr, else a line id
    discretized_path_,  \* DiscretizedPath: sequence of PathPoint
    frenet_path_,       \* FrenetFramePath: sequence of FrenetFramePoint
    call,               \* the last member function called and its arguments
    result,             \* what that call returned / wrote through its out pointer
    alive               \* FALSE once a (D)CHECK has aborted the process

vars == <<reference_line_, discretized_path_, frenet_path_, call, result, alive>>

----------------------------------------------------------------------------
(* Bounds of the model.                                                    *)

\* Longest path handed to set_discretized_path / set_frenet_path.
MaxLen == 2

\* Longest Frenet path set by the client of SpecLookup.
MaxLookupLen == 3

\* Longest Frenet path set by the client of SpecExample.
MaxExampleLen == 3

\* Longest Cartesian path set by the client of SpecRoundTrip.
MaxRoundTripLen == 3

----------------------------------------------------------------------------
(* Fixed-point arithmetic standing for double arithmetic.                  *)

Unit == 10000

Abs(a) == IF a < 0 THEN -a ELSE a

Sgn(a) == IF a < 0 THEN -1 ELSE 1

\* a * b on fixed-point values, rounded down.
Mul(a, b) == (a * b) \div Unit

\* a / b on fixed-point values, b > 0, rounded down.
Div(a, b) == (a * Unit) \div b

\* Newton's iteration from above: the largest x with x * x <= n.
RECURSIVE IsqrtIter(_, _)
IsqrtIter(n, x) ==
    LET y == (x + n \div x) \div 2
    IN  IF y >= x THEN x ELSE IsqrtIter(n, y)

\* floor(sqrt(n)) for 0 <= n < 2^31.
Isqrt(n) == IF n = 0 THEN 0 ELSE IsqrtIter(n, IF n < 46340 THEN n ELSE 46340)

\* std::sqrt on a fixed-point value.
Sqrt(a) == Isqrt(a * Unit)

\* atan(x) for a fixed-point 0 <= x <= Unit: x * (pi/4 + 0.273 * (1 - x)).
AtanUnit(x) == (x * (7854 + (2730 * (Unit - x)) \div Unit)) \div Unit

\* atan(num / den) on fixed-point values.
Atan(num, den) ==
    IF num = 0 THEN 0
    ELSE IF den = 0 THEN Sgn(num) * 15708
    ELSE LET x == (Abs(num) * Unit) \div Abs(den)
             a == IF x <= Unit THEN AtanUnit(x)
                  ELSE 15708 - AtanUnit((Unit * Unit) \div x)
         IN  Sgn(num) * Sgn(den) * a

\* Vec2d::Length of (ax - bx, ay - by).
Length(dx, dy) == Isqrt(dx * dx + dy * dy)

----------------------------------------------------------------------------
(* The reference line: an external collaborator of PathData.  Two straight *)
(* lines are modelled: line 1 runs along the x axis from the origin for    *)
(* 2.0 units, line 2 along the y axis for 1.5 units.                       *)

nullptr == 0

ReferenceLines ==
    <<[axis |-> "x", length |-> 2 * Unit, heading |-> 0, kappa |-> 0, dkappa |-> 0],
      [axis |-> "y", length |-> Unit + Unit \div 2, heading |-> 15708, kappa |-> 0, dkappa |-> 0]>>

LineIds == DOMAIN ReferenceLines

\* ReferenceLine::get_point_in_cartesian_frame(sl_point, &cartesian_point):
\* false when s is outside the line.
get_point_in_cartesian_frame(line, s, l) ==
    LET rl == ReferenceLines[line]
    IN  IF s < 0 \/ s > rl.length THEN [ok |-> FALSE, x |-> 0, y |-> 0]
        ELSE IF rl.axis = "x" THEN [ok |-> TRUE, x |-> s, y |-> l]
        ELSE [ok |-> TRUE, x |-> -l, y |-> s]

\* ReferenceLine::get_point_in_frenet_frame(xy_point, &sl_point): false when
\* the point projects outside the line.
get_point_in_frenet_frame(line, x, y) ==
    LET rl == ReferenceLines[line]
        s  == IF rl.axis = "x" THEN x ELSE y
        l  == IF rl.axis = "x" THEN y ELSE -x
    IN  IF s < 0 \/ s > rl.length THEN [ok |-> FALSE, s |-> 0, l |-> 0]
        ELSE [ok |-> TRUE, s |-> s, l |-> l]

\* ReferenceLine::get_reference_point(s): heading, kappa, dkappa at s.
get_reference_point(line, s) ==
    LET rl == ReferenceLines[line]
    IN  [heading |-> rl.heading, kappa |-> rl.kappa, dkappa |-> rl.dkappa]

\* SLAnalyticTransformation::calculate_theta.
calculate_theta(theta_ref, kappa_ref, l, dl) ==
    theta_ref + Atan(dl, Unit - Mul(kappa_ref, l))

\* SLAnalyticTransformation::calculate_kappa:
\*   (kappa_ref + ddl - 2 l kappa_ref^2 - l ddl kappa_ref + l^2 kappa_ref^3
\*    + l dl dkappa_ref + 2 dl^2 kappa_ref) / (dl^2 + (1 - l kappa_ref)^2)^1.5,
\* and 0 when the denominator vanishes.
calculate_kappa(kappa_ref, dkappa_ref, l, dl, ddl) ==
    LET o   == Unit - Mul(l, kappa_ref)
        dl2 == Mul(dl, dl)
        kk  == Mul(kappa_ref, kappa_ref)
        den == dl2 + Mul(o, o)
        d15 == Mul(den, Sqrt(den))
        num == kappa_ref + ddl
               - 2 * Mul(l, kk)
               - Mul(Mul(l, ddl), kappa_ref)
               + Mul(Mul(l, l), Mul(kk, kappa_ref))
               + Mul(Mul(l, dl), dkappa_ref)
               + 2 * Mul(dl2, kappa_ref)
    IN  IF d15 = 0 THEN 0 ELSE Div(num, d15)

\* MakePathPoint called with theta and kappa in each other's place.
MakePathPointThetaKappaSwapped(x, y, z, theta, kappa, dkappa, ddkappa) ==
    [x |-> x, y |-> y, z |-> z, theta |-> kappa, kappa |-> theta,
     dkappa |-> dkappa, ddkappa |-> ddkappa, s |-> 0]

\* common::util::MakePathPoint(x, y, z, theta, kappa, dkappa, ddkappa); s unset.
MakePathPoint(x, y, z, theta, kappa, dkappa, ddkappa) ==
    [x |-> x, y |-> y, z |-> z, theta |-> theta, kappa |-> kappa,
     dkappa |-> dkappa, ddkappa |-> ddkappa, s |-> 0]

\* common::FrenetFramePoint.
FrenetFramePoint(s, l, dl, ddl) == [s |-> s, l |-> l, dl |-> dl, ddl |-> ddl]

----------------------------------------------------------------------------
(* The transform engine.  Each conversion returns its bool, the value its  *)
(* out pointer holds afterwards, and the number of reference line queries  *)
(* it made.                                                                *)

\* A slip of sign in the arc length: the distance is subtracted.
PathPointSSubtracted(path_points, path_point) ==
    IF path_points = <<>> THEN 0
    ELSE LET back == path_points[Len(path_points)]
         IN  back.s - Length(back.x - path_point.x, back.y - path_point.y)

\* The distance from the last point alone, the last point's s not added.
PathPointSDistanceOnly(path_points, path_point) ==
    IF path_points = <<>> THEN 0
    ELSE LET back == path_points[Len(path_points)]
         IN  Length(back.x - path_point.x, back.y - path_point.y)

\* The s FrenetToCartesian gives path_point: 0 for the first point, else the
\* last point's s plus the distance from it.
PathPointS(path_points, path_point) ==
    IF path_points = <<>> THEN 0
    ELSE LET back == path_points[Len(path_points)]
         IN  back.s + Length(back.x - path_point.x, back.y - path_point.y)

\* The loop giving each point the s of its Frenet point.
RECURSIVE FrenetToCartesianLoopCopiesS(_, _, _, _, _)
FrenetToCartesianLoopCopiesS(line, frenet_path, i, path_points, n) ==
    IF i > Len(frenet_path)
    THEN [ok |-> TRUE, path_points |-> path_points, queries |-> n]
    ELSE
      LET frenet_point == frenet_path[i]
          cartesian_point ==
              get_point_in_cartesian_frame(line, frenet_point.s, frenet_point.l)
      IN  IF ~cartesian_point.ok
          THEN [ok |-> FALSE, path_points |-> path_points, queries |-> n + 1]
          ELSE
            LET ref_point == get_reference_point(line, frenet_point.s)
                theta == calculate_theta(ref_point.heading, ref_point.kappa,
                                         frenet_point.l, frenet_point.dl)
                kappa == calculate_kappa(ref_point.kappa, ref_point.dkappa,
                                         frenet_point.l, frenet_point.dl,
                                         frenet_point.ddl)
                path_point == MakePathPoint(cartesian_point.x, cartesian_point.y,
                                            0, theta, kappa, 0, 0)
            IN  FrenetToCartesianLoopCopiesS(line, frenet_path, i + 1,
                    Append(path_points,
                           [path_point EXCEPT !.s = frenet_point.s]),
                    n + 2)

\* The for loop of FrenetToCartesian from element i on; path_points is the
\* local vector built so far.
RECURSIVE FrenetToCartesianLoop(_, _, _, _, _)
FrenetToCartesianLoop(line, frenet_path, i, path_points, n) ==
    IF i > Len(frenet_path)
    THEN [ok |-> TRUE, path_points |-> path_points, queries |-> n]
    ELSE
      LET frenet_point == frenet_path[i]
          cartesian_point ==
              get_point_in_cartesian_frame(line, frenet_point.s, frenet_point.l)
      IN  IF ~cartesian_point.ok
          THEN [ok |-> FALSE, path_points |-> path_points, queries |-> n + 1]
          ELSE
            LET ref_point == get_reference_point(line, frenet_point.s)
                theta == calculate_theta(ref_point.heading, ref_point.kappa,
                                         frenet_point.l, frenet_point.dl)
                kappa == calculate_kappa(ref_point.kappa, ref_point.dkappa,
                                         frenet_point.l, frenet_point.dl,
                                         frenet_point.ddl)
                path_point == MakePathPoint(cartesian_point.x, cartesian_point.y,
                                            0, theta, kappa, 0, 0)
            IN  FrenetToCartesianLoop(line, frenet_path, i + 1,
                    Append(path_points,
                           [path_point EXCEPT !.s = PathPointS(path_points, path_point)]),
                    n + 2)

\* FrenetToCartesian assigning path_points before the failing return.
FrenetToCartesianPartial(line, frenet_path, out) ==
    LET r == FrenetToCartesianLoop(line, frenet_path, 1, <<>>, 0)
    IN  [ret |-> r.ok, out |-> r.path_points, queries |-> r.queries]

\* FrenetToCartesian whose loop stops one point early.
FrenetToCartesianShort(line, frenet_path, out) ==
    LET r == FrenetToCartesianLoop(line, frenet_path, 1, <<>>, 0)
    IN  IF r.ok
        THEN [ret |-> TRUE,
              out |-> SubSeq(r.path_points, 1, Len(r.path_points) - 1),
              queries |-> r.queries]
        ELSE [ret |-> FALSE, out |-> out, queries |-> r.queries]

\* PathData::FrenetToCartesian(frenet_path, discretized_path), where
\* *discretized_path holds `out` on entry.
FrenetToCartesian(line, frenet_path, out) ==
    LET r == FrenetToCartesianLoop(line, frenet_path, 1, <<>>, 0)
    IN  IF r.ok THEN [ret |-> TRUE, out |-> r.path_points, queries |-> r.queries]
        ELSE [ret |-> FALSE, out |-> out, queries |-> r.queries]

\* The loop storing the projection's s and l in each other's place.
RECURSIVE CartesianToFrenetLoopSwapped(_, _, _, _, _)
CartesianToFrenetLoopSwapped(line, discretized_path, i, frenet_frame_points, n) ==
    IF i > Len(discretized_path)
    THEN [ok |-> TRUE, frenet_frame_points |-> frenet_frame_points, queries |-> n]
    ELSE
      LET path_point == discretized_path[i]
          sl_point == get_point_in_frenet_frame(line, path_point.x, path_point.y)
      IN  IF ~sl_point.ok
          THEN [ok |-> FALSE, frenet_frame_points |-> frenet_frame_points,
                queries |-> n + 1]
          ELSE CartesianToFrenetLoopSwapped(line, discretized_path, i + 1,
                   Append(frenet_frame_points,
                          FrenetFramePoint(sl_point.l, sl_point.s, 0, 0)),
                   n + 1)

\* The for loop of CartesianToFrenet from element i on.
RECURSIVE CartesianToFrenetLoop(_, _, _, _, _)
CartesianToFrenetLoop(line, discretized_path, i, frenet_frame_points, n) ==
    IF i > Len(discretized_path)
    THEN [ok |-> TRUE, frenet_frame_points |-> frenet_frame_points, queries |-> n]
    ELSE
      LET path_point == discretized_path[i]
          sl_point == get_point_in_frenet_frame(line, path_point.x, path_point.y)
      IN  IF ~sl_point.ok
          THEN [ok |-> FALSE, frenet_frame_points |-> frenet_frame_points,
                queries |-> n + 1]
          ELSE CartesianToFrenetLoop(line, discretized_path, i + 1,
                   Append(frenet_frame_points,
                          FrenetFramePoint(sl_point.s, sl_point.l, 0, 0)),
                   n + 1)

\* PathData::CartesianToFrenet(discretized_path, frenet_path), where
\* *frenet_path holds `out` on entry.
CartesianToFrenet(line, discretized_path, out) ==
    LET r == CartesianToFrenetLoop(line, discretized_path, 1, <<>>, 0)
    IN  IF r.ok THEN [ret |-> TRUE, out |-> r.frenet_frame_points,
                      queries |-> r.queries]
        ELSE [ret |-> FALSE, out |-> out, queries |-> r.queries]

----------------------------------------------------------------------------
(* The nearest-sample scan of get_path_point_with_ref_s.                   *)

\* const double kDistanceEpsilon = 1e-3.
kDistanceEpsilon == 10

\* std::numeric_limits<double>::max(): above every distance of the model.
kDoubleMax == 2147483647

\* The scan keeping the last of several equally distant samples (<=).
RECURSIVE RefSLoopLastMinimum(_, _, _, _, _)
RefSLoopLastMinimum(points, ref_s, i, index, shortest_distance) ==
    IF ~(i < Len(points)) THEN [early |-> FALSE, index |-> index]
    ELSE LET curr_distance == Abs(ref_s - points[i + 1].s)
         IN  IF curr_distance < kDistanceEpsilon
             THEN [early |-> TRUE, index |-> i]
             ELSE IF curr_distance <= shortest_distance
             THEN RefSLoopLastMinimum(points, ref_s, i + 1, i, curr_distance)
             ELSE RefSLoopLastMinimum(points, ref_s, i + 1, index, shortest_distance)

\* The scan whose early return copies PathPointAt(index) instead of
\* PathPointAt(i).
RECURSIVE RefSLoopStaleIndex(_, _, _, _, _)
RefSLoopStaleIndex(points, ref_s, i, index, shortest_distance) ==
    IF ~(i < Len(points)) THEN [early |-> FALSE, index |-> index]
    ELSE LET curr_distance == Abs(ref_s - points[i + 1].s)
         IN  IF curr_distance < kDistanceEpsilon
             THEN [early |-> TRUE, index |-> index]
             ELSE IF curr_distance < shortest_distance
             THEN RefSLoopStaleIndex(points, ref_s, i + 1, i, curr_distance)
             ELSE RefSLoopStaleIndex(points, ref_s, i + 1, index, shortest_distance)

\* The for loop from element i (0-based) on; `early` tells the return inside
\* the loop from the one after it.
RECURSIVE RefSLoop(_, _, _, _, _)
RefSLoop(points, ref_s, i, index, shortest_distance) ==
    IF ~(i < Len(points)) THEN [early |-> FALSE, index |-> index]
    ELSE LET curr_distance == Abs(ref_s - points[i + 1].s)
         IN  IF curr_distance < kDistanceEpsilon
             THEN [early |-> TRUE, index |-> i]
             ELSE IF curr_distance < shortest_distance
             THEN RefSLoop(points, ref_s, i + 1, i, curr_distance)
             ELSE RefSLoop(points, ref_s, i + 1, index, shortest_distance)

\* The index whose PathPointAt is copied to *path_point.
RefSIndex(points, ref_s) == RefSLoop(points, ref_s, 0, 0, kDoubleMax).index

----------------------------------------------------------------------------
(* The member functions of PathData, one action each.                      *)

NoPoint == <<>>

Call(name, path, line, ref_s) ==
    [op |-> name, path |-> path, line |-> line, ref_s |-> ref_s]

Result(ret, path_point, queries) ==
    [ret |-> ret, path_point |-> path_point, queries |-> queries]

Init ==
    /\ reference_line_ = nullptr
    /\ discretized_path_ = <<>>
    /\ frenet_path_ = <<>>
    /\ call = Call("PathData", <<>>, nullptr, 0)
    /\ result = Result(TRUE, NoPoint, 0)
    /\ alive = TRUE

\* set_discretized_path assigning discretized_path_ before the nullptr test.
set_discretized_path_assign_first(path) ==
    /\ alive
    /\ call' = Call("set_discretized_path", path, nullptr, 0)
    /\ discretized_path_' = path
    /\ IF reference_line_ = nullptr
       THEN /\ result' = Result(FALSE, NoPoint, 0)
            /\ UNCHANGED frenet_path_
       ELSE \E r \in {CartesianToFrenet(reference_line_, path, frenet_path_)} :
                /\ frenet_path_' = r.out
                /\ result' = Result(r.ret, NoPoint, r.queries)
    /\ UNCHANGED <<reference_line_, alive>>

\* bool PathData::set_discretized_path(const DiscretizedPath &path)
set_discretized_path(path) ==
    /\ alive
    /\ call' = Call("set_discretized_path", path, nullptr, 0)
    /\ IF reference_line_ = nullptr
       THEN /\ result' = Result(FALSE, NoPoint, 0)
            /\ UNCHANGED <<discretized_path_, frenet_path_>>
       ELSE \E r \in {CartesianToFrenet(reference_line_, path, frenet_path_)} :
                /\ discretized_path_' = path
                /\ frenet_path_' = r.out
                /\ result' = Result(r.ret, NoPoint, r.queries)
    /\ UNCHANGED <<reference_line_, alive>>

\* set_frenet_path converting its argument without storing it.
set_frenet_path_not_stored(frenet_path) ==
    /\ alive
    /\ call' = Call("set_frenet_path", frenet_path, nullptr, 0)
    /\ IF reference_line_ = nullptr
       THEN /\ result' = Result(FALSE, NoPoint, 0)
            /\ UNCHANGED <<discretized_path_, frenet_path_>>
       ELSE \E r \in {FrenetToCartesian(reference_line_, frenet_path,
                                       discretized_path_)} :
                /\ UNCHANGED frenet_path_
                /\ discretized_path_' = r.out
                /\ result' = Result(r.ret, NoPoint, r.queries)
    /\ UNCHANGED <<reference_line_, alive>>

\* set_frenet_path calling Clear() when the conversion fails.
set_frenet_path_clears_on_failure(frenet_path) ==
    /\ alive
    /\ call' = Call("set_frenet_path", frenet_path, nullptr, 0)
    /\ IF reference_line_ = nullptr
       THEN /\ result' = Result(FALSE, NoPoint, 0)
            /\ UNCHANGED <<discretized_path_, frenet_path_, reference_line_>>
       ELSE \E r \in {FrenetToCartesian(reference_line_, frenet_path,
                                       discretized_path_)} :
                /\ frenet_path_' = IF r.ret THEN frenet_path ELSE <<>>
                /\ discretized_path_' = IF r.ret THEN r.out ELSE <<>>
                /\ reference_line_' = IF r.ret THEN reference_line_ ELSE nullptr
                /\ result' = Result(r.ret, NoPoint, r.queries)
    /\ UNCHANGED alive

\* bool PathData::set_frenet_path(const FrenetFramePath &frenet_path)
set_frenet_path(frenet_path) ==
    /\ alive
    /\ call' = Call("set_frenet_path", frenet_path, nullptr, 0)
    /\ IF reference_line_ = nullptr
       THEN /\ result' = Result(FALSE, NoPoint, 0)
            /\ UNCHANGED <<discretized_path_, frenet_path_>>
       ELSE \E r \in {FrenetToCartesian(reference_line_, frenet_path,
                                       discretized_path_)} :
                /\ frenet_path_' = frenet_path
                /\ discretized_path_' = r.out
                /\ result' = Result(r.ret, NoPoint, r.queries)
    /\ UNCHANGED <<reference_line_, alive>>

\* Clear without the reset of reference_line_.
Clear_keeps_line ==
    /\ alive
    /\ call' = Call("Clear", <<>>, nullptr, 0)
    /\ discretized_path_' = <<>>
    /\ frenet_path_' = <<>>
    /\ result' = Result(TRUE, NoPoint, 0)
    /\ UNCHANGED <<reference_line_, alive>>

\* void PathData::Clear()
Clear ==
    /\ alive
    /\ call' = Call("Clear", <<>>, nullptr, 0)
    /\ discretized_path_' = <<>>
    /\ frenet_path_' = <<>>
    /\ reference_line_' = nullptr
    /\ result' = Result(TRUE, NoPoint, 0)
    /\ UNCHANGED alive

\* set_reference_line without its call of Clear().
set_reference_line_no_clear(reference_line) ==
    /\ alive
    /\ call' = Call("set_reference_line", <<>>, reference_line, 0)
    /\ reference_line_' = reference_line
    /\ result' = Result(TRUE, NoPoint, 0)
    /\ UNCHANGED <<discretized_path_, frenet_path_, alive>>

\* void PathData::set_reference_line(const ReferenceLine *reference_line):
\* Clear(), then the assignment.
set_reference_line(reference_line) ==
    /\ alive
    /\ call' = Call("set_reference_line", <<>>, reference_line, 0)
    /\ discretized_path_' = <<>>
    /\ frenet_path_' = <<>>
    /\ reference_line_' = reference_line
    /\ result' = Result(TRUE, NoPoint, 0)
    /\ UNCHANGED alive

\* What a read through an out-of-range index may yield when it does not abort.
IndeterminatePoints == {MakePathPoint(-Unit, -Unit, 0, 0, 0, 0, 0)}

\* bool PathData::get_path_point_with_ref_s(ref_s, path_point).  The DCHECKs
\* abort a debug build and are no-ops in a release build; PathPointAt of an
\* index outside discretized_path_ aborts or reads an arbitrary point.
get_path_point_with_ref_s(ref_s) ==
    /\ alive
    /\ call' = Call("get_path_point_with_ref_s", <<>>, nullptr, ref_s)
    /\ \E debug \in BOOLEAN :
         LET dchecks == /\ reference_line_ # nullptr
                        /\ Len(discretized_path_) = Len(frenet_path_)
             index == RefSIndex(frenet_path_, ref_s)
         IN  IF debug /\ ~dchecks
             THEN /\ alive' = FALSE
                  /\ result' = Result(FALSE, NoPoint, 0)
             ELSE IF index < Len(discretized_path_)
             THEN /\ alive' = TRUE
                  /\ result' = Result(TRUE, <<discretized_path_[index + 1]>>, 0)
             ELSE \/ /\ alive' = FALSE
                     /\ result' = Result(FALSE, NoPoint, 0)
                  \/ /\ alive' = TRUE
                     /\ \E p \in IndeterminatePoints :
                          result' = Result(TRUE, <<p>>, 0)
    /\ UNCHANGED <<reference_line_, discretized_path_, frenet_path_>>

\* The first index i >= 2 (1-based) with path[i].s >= s, or the last index:
\* the upper end of the segment that brackets s, the first or the last
\* segment when s lies outside the path.
RECURSIVE UpperIndex(_, _, _)
UpperIndex(path, s, i) ==
    IF i >= Len(path) \/ path[i].s >= s THEN i ELSE UpperIndex(path, s, i + 1)

\* p0 + (s - p0.s) / (p1.s - p0.s) * (p1 - p0), field by field.
InterpolateUsingLinearApproximation(p0, p1, s) ==
    LET weight == Div(s - p0.s, p1.s - p0.s)
        Lerp(a, b) == a + Mul(weight, b - a)
    IN  [x |-> Lerp(p0.x, p1.x), y |-> Lerp(p0.y, p1.y), z |-> Lerp(p0.z, p1.z),
         theta |-> Lerp(p0.theta, p1.theta), kappa |-> Lerp(p0.kappa, p1.kappa),
         dkappa |-> Lerp(p0.dkappa, p1.dkappa),
         ddkappa |-> Lerp(p0.ddkappa, p1.ddkappa), s |-> s]

\* DiscretizedPath::EvaluateUsingLinearApproximation(s) on a path of at least
\* one point: the points it may return.  A segment of zero length divides by
\* zero and yields no definite point.
EvaluateUsingLinearApproximation(path, s) ==
    IF Len(path) = 1 THEN {path[1]}
    ELSE LET hi == UpperIndex(path, s, 2)
         IN  IF path[hi].s <= path[hi - 1].s THEN IndeterminatePoints
             ELSE {InterpolateUsingLinearApproximation(path[hi - 1], path[hi], s)}

\* bool PathData::get_path_point_with_path_s(s, path_point).  On an empty
\* discretized_path_ the evaluation aborts or yields an arbitrary point.
get_path_point_with_path_s(s) ==
    /\ alive
    /\ call' = Call("get_path_point_with_path_s", <<>>, nullptr, s)
    /\ IF discretized_path_ = <<>>
       THEN \/ /\ alive' = FALSE
               /\ result' = Result(FALSE, NoPoint, 0)
            \/ /\ alive' = TRUE
               /\ \E p \in IndeterminatePoints : result' = Result(TRUE, <<p>>, 0)
       ELSE /\ alive' = TRUE
            /\ \E p \in EvaluateUsingLinearApproximation(discretized_path_, s) :
                 result' = Result(TRUE, <<p>>, 0)
    /\ UNCHANGED <<reference_line_, discretized_path_, frenet_path_>>

----------------------------------------------------------------------------
(* The calls a client makes.                                               *)

\* All sequences over S of length at most n.
PathsUpTo(S, n) == UNION {[1..k -> S] : k \in 0..n}

Handles == {nullptr} \cup LineIds

\* Frenet points a caller passes: one on both lines, one with a lateral
\* offset that is beyond the end of line 2, one beyond the end of both.
FrenetInputs ==
    {FrenetFramePoint(Unit, 0, 0, 0),
     FrenetFramePoint(2 * Unit, Unit, Unit, 0),
     FrenetFramePoint(3 * Unit, 0, 0, 0)}

\* Cartesian points a caller passes: the second projects onto neither line.
PathPointInputs ==
    {[MakePathPoint(Unit, Unit \div 2, 0, 0, 0, 0, 0) EXCEPT !.s = Unit],
     [MakePathPoint(-Unit, -Unit, 0, 0, 0, 0, 0) EXCEPT !.s = 2 * Unit]}

RefSInputs == {Unit \div 2, Unit}

PathSInputs == {Unit \div 2}

Next ==
    \/ \E reference_line \in Handles : set_reference_line(reference_line)
    \/ \E path \in PathsUpTo(PathPointInputs, MaxLen) : set_discretized_path(path)
    \/ \E frenet_path \in PathsUpTo(FrenetInputs, MaxLen) :
         set_frenet_path(frenet_path)
    \/ Clear
    \/ \E ref_s \in RefSInputs : get_path_point_with_ref_s(ref_s)
    \/ \E s \in PathSInputs : get_path_point_with_path_s(s)

Spec == Init /\ [][Next]_vars

\* A client that sets Frenet paths whose samples lie 0.0005 apart and looks
\* points up next to them.
LookupFrenetInputs ==
    {FrenetFramePoint(0, 0, 0, 0),
     FrenetFramePoint(Unit \div 2, 0, 0, 0),
     FrenetFramePoint(Unit \div 2 + 5, 0, 0, 0),
     FrenetFramePoint(Unit + Unit \div 5, 0, 0, 0)}

LookupRefSInputs == {Unit \div 4, Unit \div 2 + 5, Unit \div 2 + 10}

LookupHandles == {nullptr, 1}

NextLookup ==
    \/ \E reference_line \in LookupHandles : set_reference_line(reference_line)
    \/ \E frenet_path \in PathsUpTo(LookupFrenetInputs, MaxLookupLen) :
         set_frenet_path(frenet_path)
    \/ \E ref_s \in LookupRefSInputs : get_path_point_with_ref_s(ref_s)

SpecLookup == Init /\ [][NextLookup]_vars

\* A client that sets Frenet paths made of the points (s, l) = (0, 0),
\* (1, 0) and (2, 1).
ExampleFrenetInputs ==
    {FrenetFramePoint(0, 0, 0, 0),
     FrenetFramePoint(Unit, 0, 0, 0),
     FrenetFramePoint(2 * Unit, Unit, 0, 0)}

NextExample ==
    \/ \E reference_line \in Handles : set_reference_line(reference_line)
    \/ \E frenet_path \in PathsUpTo(ExampleFrenetInputs, MaxExampleLen) :
         set_frenet_path(frenet_path)

SpecExample == Init /\ [][NextExample]_vars

\* A client that sets Cartesian paths and hands the Frenet path it reads back
\* (frenet_frame_path()) to set_frenet_path.  The origin lies on both lines,
\* (1, 0) on line 1 only, (0, 1) on line 2 only; the headings given differ
\* from the lines'.
RoundTripPathPoints ==
    {MakePathPoint(0, 0, 0, Unit \div 2, 0, 0, 0),
     [MakePathPoint(Unit, 0, 0, Unit \div 4, 0, 0, 0) EXCEPT !.s = Unit],
     [MakePathPoint(0, Unit, 0, 0, 0, 0, 0) EXCEPT !.s = Unit]}

NextRoundTrip ==
    \/ \E reference_line \in Handles : set_reference_line(reference_line)
    \/ \E path \in PathsUpTo(RoundTripPathPoints, MaxRoundTripLen) :
         set_discretized_path(path)
    \/ \E frenet_path \in {frenet_path_} : set_frenet_path(frenet_path)

SpecRoundTrip == Init /\ [][NextRoundTrip]_vars

----------------------------------------------------------------------------
(* Vocabulary of the properties.                                           *)

SetOps == {"set_discretized_path", "set_frenet_path"}

Bound == reference_line_ # nullptr

\* The bound line can convert Frenet point fp / project Cartesian point pp.
Converts(fp) == get_point_in_cartesian_frame(reference_line_, fp.s, fp.l).ok

Projects(pp) == get_point_in_frenet_frame(reference_line_, pp.x, pp.y).ok

\* Some point of the path handed to the last set call fails on the bound line.
SomePointFails(c) ==
    /\ c.op = "set_frenet_path" => \E k \in DOMAIN c.path : ~Converts(c.path[k])
    /\ c.op = "set_discretized_path" => \E k \in DOMAIN c.path : ~Projects(c.path[k])

\* The Cartesian point FrenetToCartesian owes for Frenet point fp, given the
\* output point before it (prev = <<>> for the first).
CartesianOf(fp, prev) ==
    LET xy == get_point_in_cartesian_frame(reference_line_, fp.s, fp.l)
        rp == get_reference_point(reference_line_, fp.s)
    IN  [x |-> xy.x, y |-> xy.y, z |-> 0,
         theta |-> calculate_theta(rp.heading, rp.kappa, fp.l, fp.dl),
         kappa |-> calculate_kappa(rp.kappa, rp.dkappa, fp.l, fp.dl, fp.ddl),
         dkappa |-> 0, ddkappa |-> 0,
         s |-> IF prev = <<>> THEN 0
               ELSE prev[1].s + Length(prev[1].x - xy.x, prev[1].y - xy.y)]

\* The Frenet point CartesianToFrenet owes for Cartesian point pp.
FrenetOf(pp) ==
    LET sl == get_point_in_frenet_frame(reference_line_, pp.x, pp.y)
    IN  [s |-> sl.s, l |-> sl.l, dl |-> 0, ddl |-> 0]

SetReturnedTrue(name) == call.op = name /\ result.ret

\* The last call was the lookup by reference s, on stored paths of equal,
\* non-zero length, and it returned.
LookedUp ==
    /\ call.op = "get_path_point_with_ref_s"
    /\ alive
    /\ Len(frenet_path_) > 0
    /\ Len(discretized_path_) = Len(frenet_path_)

Indexes == 0 .. (Len(frenet_path_) - 1)

SampleDistance(i) == Abs(call.ref_s - frenet_path_[i + 1].s)

WithinEpsilon == {i \in Indexes : SampleDistance(i) < kDistanceEpsilon}

Nearest == {i \in Indexes : \A j \in Indexes : SampleDistance(i) <= SampleDistance(j)}

Lowest(S) == CHOOSE m \in S : \A n \in S : m <= n

Returned(i) == result.path_point = <<discretized_path_[i + 1]>>

FrenetS == [i \in DOMAIN frenet_path_ |-> frenet_path_[i].s]

----------------------------------------------------------------------------
(* Properties.                                                             *)

\* C1: in every reachable state the stored Cartesian path and the stored
\* Frenet path have the same number of points.
C1_EqualLength == Len(discretized_path_) = Len(frenet_path_)

\* C2: a set call that returns false with a reference line bound leaves both
\* stored paths exactly as they were before the call.
C2_FailedSetRejected ==
    [][(call'.op \in SetOps /\ Bound /\ ~result'.ret)
         => UNCHANGED <<discretized_path_, frenet_path_>>]_vars

\* C3: with no reference line bound, set_discretized_path and set_frenet_path
\* return false, make no query of a reference line, and leave both stored
\* paths and the handle unchanged.
C3_UnboundSetRejected ==
    [][(call'.op \in SetOps /\ ~Bound)
         => /\ ~result'.ret
            /\ result'.queries = 0
            /\ UNCHANGED <<discretized_path_, frenet_path_, reference_line_>>]_vars

C3_Witness ==
    /\ call.op \in SetOps
    /\ ~Bound
    /\ call.path # <<>>
    /\ ~result.ret

\* C4: right after set_reference_line both stored paths are empty and the
\* stored handle is the one passed.
C4_RebindClears ==
    call.op = "set_reference_line"
      => /\ discretized_path_ = <<>>
         /\ frenet_path_ = <<>>
         /\ reference_line_ = call.line

C4_Witness ==
    /\ call.op = "set_reference_line"
    /\ call.line \in LineIds
    /\ reference_line_ = call.line

\* C5: when the bound line fails on some point of the input, the conversion
\* returns false and its output path (discretized_path_ for FrenetToCartesian,
\* frenet_path_ for CartesianToFrenet) is not written.
C5_FailureWritesNothing ==
    [][(call'.op \in SetOps /\ Bound /\ SomePointFails(call)')
         => /\ ~result'.ret
            /\ call'.op = "set_frenet_path" => discretized_path_' = discretized_path_
            /\ call'.op = "set_discretized_path" => frenet_path_' = frenet_path_]_vars

\* A failure at the second point, after a first point that converted, with an
\* earlier non-empty output still in place.
C5_Witness ==
    /\ call.op = "set_frenet_path"
    /\ Bound
    /\ ~result.ret
    /\ Len(call.path) >= 2
    /\ Converts(call.path[1])
    /\ ~Converts(call.path[2])
    /\ discretized_path_ # <<>>

\* C6: on an input no point of which fails, the conversion succeeds and its
\* output has as many points as the input, in the input's order: output
\* point i lies where the line puts input point i.  An empty input gives an
\* empty output.
C6_LengthAndOrderPreserved ==
    /\ (call.op \in SetOps /\ Bound /\ ~SomePointFails(call)) => result.ret
    /\ SetReturnedTrue("set_frenet_path")
         => /\ Len(discretized_path_) = Len(call.path)
            /\ \A i \in DOMAIN call.path :
                 LET xy == get_point_in_cartesian_frame(
                               reference_line_, call.path[i].s, call.path[i].l)
                 IN  /\ discretized_path_[i].x = xy.x
                     /\ discretized_path_[i].y = xy.y
    /\ SetReturnedTrue("set_discretized_path")
         => /\ Len(frenet_path_) = Len(call.path)
            /\ \A i \in DOMAIN call.path :
                 LET sl == get_point_in_frenet_frame(
                               reference_line_, call.path[i].x, call.path[i].y)
                 IN  /\ frenet_path_[i].s = sl.s
                     /\ frenet_path_[i].l = sl.l

\* Two different Frenet points converted in order.
C6_Witness ==
    /\ SetReturnedTrue("set_frenet_path")
    /\ Len(call.path) >= 2
    /\ call.path[1] # call.path[2]
    /\ discretized_path_[1].x # discretized_path_[2].x

\* C7: when a set call returns true, the stored path of the kind supplied is
\* the input, the other stored path is the transform of the input under the
\* bound line, and both have the same length.
C7_SuccessStoresBoth ==
    /\ SetReturnedTrue("set_frenet_path")
         => /\ frenet_path_ = call.path
            /\ Len(discretized_path_) = Len(frenet_path_)
            /\ \A i \in DOMAIN call.path :
                 discretized_path_[i] =
                     CartesianOf(call.path[i],
                                 IF i = 1 THEN <<>> ELSE <<discretized_path_[i - 1]>>)
    /\ SetReturnedTrue("set_discretized_path")
         => /\ discretized_path_ = call.path
            /\ Len(discretized_path_) = Len(frenet_path_)
            /\ \A i \in DOMAIN call.path : frenet_path_[i] = FrenetOf(call.path[i])

\* A successful set_frenet_path of at least two points, one of them laterally
\* offset and with a heading that differs from the line's.
C7_Witness ==
    /\ SetReturnedTrue("set_frenet_path")
    /\ Len(call.path) >= 2
    /\ \E i \in DOMAIN call.path : call.path[i].l # 0 /\ discretized_path_[i].theta # 0

\* C8: the Cartesian path a successful FrenetToCartesian produces starts at
\* s = 0 and its s never decreases along the path.
C8_ArcLengthMonotone ==
    (SetReturnedTrue("set_frenet_path") /\ discretized_path_ # <<>>)
      => /\ discretized_path_[1].s = 0
         /\ \A i \in 1 .. (Len(discretized_path_) - 1) :
              discretized_path_[i].s <= discretized_path_[i + 1].s

C8_Witness ==
    /\ SetReturnedTrue("set_frenet_path")
    /\ Len(discretized_path_) >= 2
    /\ discretized_path_[1].s = 0
    /\ discretized_path_[2].s > 0

\* C9: on stored paths of equal non-zero length, get_path_point_with_ref_s
\* returns the stored Cartesian point at the lowest index whose Frenet s is
\* less than 1e-3 from ref_s when there is one, and else at the lowest index
\* minimising |ref_s - s|; Frenet s values 0, 0.5, 1.2 queried at 0.5005
\* give the point at index 1.
C9_RefSLookup ==
    LookedUp
      => /\ result.ret
         /\ WithinEpsilon # {} => Returned(Lowest(WithinEpsilon))
         /\ WithinEpsilon = {} => Returned(Lowest(Nearest))
         /\ (FrenetS = <<0, Unit \div 2, Unit + Unit \div 5>>
               /\ call.ref_s = Unit \div 2 + 5) => Returned(1)

C9_Witness ==
    /\ LookedUp
    /\ FrenetS = <<0, Unit \div 2, Unit + Unit \div 5>>
    /\ call.ref_s = Unit \div 2 + 5
    /\ Returned(1)
    /\ ~Returned(0)
    /\ ~Returned(2)

\* C10 as stated: the lookup always returns the point of the sample nearest
\* to ref_s (the lowest index among the nearest), the early return never
\* changing which sample is returned.
C10_AlwaysNearest == LookedUp => Returned(Lowest(Nearest))

\* C10 amended: the lookup returns the point of a sample k such that no
\* sample before k is less than 1e-3 from ref_s; k is the lowest nearest
\* sample unless some sample is less than 1e-3 from ref_s, and then k is less
\* than 1e-3 from ref_s itself (so less than 1e-3 farther than the nearest).
C10_NearestUnlessWithinEpsilon ==
    LookedUp
      => \E k \in Indexes :
           /\ Returned(k)
           /\ \A j \in 0 .. (k - 1) : SampleDistance(j) >= kDistanceEpsilon
           /\ SampleDistance(Lowest(Nearest)) >= kDistanceEpsilon
                => k = Lowest(Nearest)
           /\ SampleDistance(Lowest(Nearest)) < kDistanceEpsilon
                => SampleDistance(k) < kDistanceEpsilon

\* The early return on a sample that is not the nearest one.
C10_Witness ==
    /\ LookedUp
    /\ WithinEpsilon # {}
    /\ Returned(Lowest(WithinEpsilon))
    /\ ~Returned(Lowest(Nearest))

\* C11: every Frenet point CartesianToFrenet produces, and so every stored
\* Frenet point after a successful set_discretized_path, has dl = 0 and
\* ddl = 0, and its s and l are the line's projection of the Cartesian
\* point's (x, y).
C11_ProjectionOnly ==
    SetReturnedTrue("set_discretized_path")
      => \A i \in DOMAIN frenet_path_ :
           LET sl == get_point_in_frenet_frame(reference_line_,
                         discretized_path_[i].x, discretized_path_[i].y)
           IN  /\ frenet_path_[i].dl = 0
               /\ frenet_path_[i].ddl = 0
               /\ frenet_path_[i].s = sl.s
               /\ frenet_path_[i].l = sl.l

\* A projected point whose s and l differ and are not zero.
C11_Witness ==
    /\ SetReturnedTrue("set_discretized_path")
    /\ frenet_path_ # <<>>
    /\ frenet_path_[1].l # 0
    /\ frenet_path_[1].s # frenet_path_[1].l

\* A bind of a line, as opposed to a bind of nullptr.
BindsLine(c) == c.op = "set_reference_line" /\ c.line # nullptr

\* C12: Clear leaves both stored paths empty and no line bound; while no line
\* is bound, every call but a bind of a line leaves none bound, and every
\* set_discretized_path or set_frenet_path returns false.
C12_ClearUnbinds ==
    [][/\ call'.op = "Clear"
            => /\ discretized_path_' = <<>>
               /\ frenet_path_' = <<>>
               /\ reference_line_' = nullptr
       /\ (~Bound /\ ~BindsLine(call'))
            => /\ reference_line_' = nullptr
               /\ call'.op \in SetOps => ~result'.ret]_vars

C12_Witness ==
    /\ call.op = "Clear"
    /\ ~Bound
    /\ discretized_path_ = <<>>
    /\ frenet_path_ = <<>>

\* The example: line 1 (straight, along the x axis) is bound and the last
\* call stored the Frenet path (s, l) = (0, 0), (1, 0), (2, 1).
ExampleStored ==
    /\ SetReturnedTrue("set_frenet_path")
    /\ reference_line_ = 1
    /\ frenet_path_ = <<FrenetFramePoint(0, 0, 0, 0),
                        FrenetFramePoint(Unit, 0, 0, 0),
                        FrenetFramePoint(2 * Unit, Unit, 0, 0)>>

Positions == [i \in DOMAIN discretized_path_ |->
                 <<discretized_path_[i].x, discretized_path_[i].y>>]

ArcLengths == [i \in DOMAIN discretized_path_ |-> discretized_path_[i].s]

\* C13 as stated: the example yields the positions (0,0), (1,0), (2,1) and the
\* arc lengths 0, 1 and sqrt(2) = 1.4142.
C13_ExampleAsStated ==
    ExampleStored
      => /\ Positions = <<<<0, 0>>, <<Unit, 0>>, <<2 * Unit, Unit>>>>
         /\ ArcLengths = <<0, Unit, 14142>>

\* C13 amended: the example yields the positions (0,0), (1,0), (2,1) and the
\* arc lengths 0, 1 and 1 + sqrt(2) = 2.4142: s accumulates along the path.
C13_ExampleCumulative ==
    ExampleStored
      => /\ Positions = <<<<0, 0>>, <<Unit, 0>>, <<2 * Unit, Unit>>>>
         /\ ArcLengths = <<0, Unit, Unit + 14142>>

C13_Witness ==
    /\ ExampleStored
    /\ Len(discretized_path_) = 3
    /\ discretized_path_[3].s = Unit + 14142

\* Every point of the stored Cartesian path lies on the bound line.
OnLine ==
    \A i \in DOMAIN discretized_path_ :
      get_point_in_frenet_frame(reference_line_, discretized_path_[i].x,
                                discretized_path_[i].y).l = 0

RECURSIVE ArcLengthAt(_, _)
ArcLengthAt(positions, i) ==
    IF i <= 1 THEN 0
    ELSE ArcLengthAt(positions, i - 1)
         + Length(positions[i - 1][1] - positions[i][1],
                  positions[i - 1][2] - positions[i][2])

\* C15: in the output of FrenetToCartesian the s of every point after the
\* first is the s of the point before it plus the distance between their
\* positions; the s values are the arc length of the polyline through the
\* output positions, a function of those positions alone, whatever the
\* Frenet s.
C15_ArcLengthFromGeometry ==
    SetReturnedTrue("set_frenet_path")
      => /\ \A i \in 2 .. Len(discretized_path_) :
              discretized_path_[i].s =
                  discretized_path_[i - 1].s
                  + Length(Positions[i - 1][1] - Positions[i][1],
                           Positions[i - 1][2] - Positions[i][2])
         /\ \A i \in DOMAIN discretized_path_ :
              discretized_path_[i].s = ArcLengthAt(Positions, i)

\* Two points whose Cartesian s differ from their Frenet s.
C15_Witness ==
    /\ SetReturnedTrue("set_frenet_path")
    /\ Len(discretized_path_) >= 2
    /\ discretized_path_[2].s > 0
    /\ \A i \in 1 .. 2 : discretized_path_[i].s # frenet_path_[i].s

\* C16: whenever get_path_point_with_ref_s returns, the index it handed to
\* PathPointAt was smaller than the length of discretized_path_.
C16_ReadsInRange ==
    (call.op = "get_path_point_with_ref_s" /\ alive)
      => RefSIndex(frenet_path_, call.ref_s) < Len(discretized_path_)

LookupOps == {"get_path_point_with_path_s", "get_path_point_with_ref_s"}

\* C17: only set_reference_line and Clear change reference_line_; the two
\* lookups change neither stored path.
C17_Frame ==
    [][/\ call'.op \notin {"set_reference_line", "Clear"}
            => reference_line_' = reference_line_
       /\ call'.op \in LookupOps
            => UNCHANGED <<discretized_path_, frenet_path_>>]_vars

\* An interpolating lookup on a bound container holding two points.
C17_Witness ==
    /\ call.op = "get_path_point_with_path_s"
    /\ result.ret
    /\ Bound
    /\ Len(discretized_path_) = 2
    /\ Len(frenet_path_) = 2

====
